---- MODULE Spec2Model ----
(***************************************************************************)
(* PolylineVolumeOutlineGeometry (Source/Core): the description of a       *)
(* polyline volume outline, its pack/unpack serializer, createGeometry and *)
(* the index-buffer builder computeAttributes.                             *)
(*                                                                         *)
(* JavaScript arrays are 0-based; TLA+ sequences are 1-based, so the       *)
(* code's positions[i] is positions[i + 1] here.  The packed array is a    *)
(* function over 0 .. ArrayLen - 1 and keeps the code's indices.  An       *)
(* optional argument is <<>> when omitted (undefined) and <<v>> when given. *)
(***************************************************************************)
EXTENDS Integers, Sequences, FiniteSets, TLC

VARIABLES geoms, ellipsoids, array, packedAt, scratchOptions, brScratch, last,
          topoIn, topoOut

vars == <<geoms, ellipsoids, array, packedAt, scratchOptions, brScratch, last,
          topoIn, topoOut>>

(***************************** bounds **************************************)
\* number of variables of the caller that can hold a PolylineVolumeOutlineGeometry
MaxGeoms == 2
\* largest startingIndex the caller passes to pack / unpack
MaxOffset == 1
\* largest shape length and cross-section count handed to computeAttributes directly
MaxShapeLength == 6
MaxShapeCount == 9

(************************ collaborators' constants *************************)
Cartesian3packedLength == 3
Cartesian2packedLength == 2
EllipsoidpackedLength == 3
\* CornerType
ROUNDED == 0
MITERED == 1
BEVELED == 2
\* CesiumMath.RADIANS_PER_DEGREE, in micro-radians
RADIANS_PER_DEGREE == 17453
\* WindingOrder
CLOCKWISE == "CLOCKWISE"
COUNTER_CLOCKWISE == "COUNTER_CLOCKWISE"

\* identities of the Ellipsoid objects: the module's scratch instance, the frozen
\* Ellipsoid.WGS84 and Ellipsoid.UNIT_SPHERE, one ellipsoid owned by the caller;
\* 1 .. MaxGeoms are the ellipsoids the constructor allocates, one per variable
scratchEllipsoid == 0
WGS84 == -1
UNIT_SPHERE == -2
callerEllipsoid == -3
EllipsoidIds == (-3) .. MaxGeoms

WGS84Radii == <<6378137, 6378137, 6356752>>
UnitRadii == <<1, 1, 1>>
CallerRadii == <<3, 2, 1>>

defined(x) == x # <<>>
defaultValue(a, b) == IF defined(a) THEN a[1] ELSE b

(***************************** inputs **************************************)
A3 == <<1, 0, 0>>
B3 == <<0, 1, 0>>
C3 == <<0, 0, 1>>

pathA == <<A3>>
pathAB == <<A3, B3>>
pathAAB == <<A3, A3, B3>>
pathAA == <<A3, A3>>
pathABC == <<A3, B3, C3>>

triCCW == <<<<0, 0>>, <<1, 0>>, <<0, 1>>>>
triCW == <<<<0, 0>>, <<0, 1>>, <<1, 0>>>>
line3 == <<<<0, 0>>, <<1, 0>>, <<2, 0>>>>
dupShort == <<<<0, 0>>, <<0, 0>>, <<1, 0>>>>
quadCWdup == <<<<0, 0>>, <<0, 1>>, <<1, 1>>, <<1, 1>>, <<1, 0>>>>
quadCCW == <<<<0, 0>>, <<1, 0>>, <<1, 1>>, <<0, 1>>>>

Opt(p, s, e, c, g) ==
    [polylinePositions |-> p, shapePositions |-> s, ellipsoid |-> e,
     cornerType |-> c, granularity |-> g]

\* the options objects the caller constructs descriptions from
OptionsSet ==
    { Opt(pathAB, triCW, <<>>, <<>>, <<>>),
      Opt(pathA, quadCWdup, <<callerEllipsoid>>, <<MITERED>>, <<2 * RADIANS_PER_DEGREE>>) }

\* the descriptions createGeometry is applied to in SpecShapes
PathSet == {pathA, pathAB, pathAAB, pathAA, pathABC}
ShapeSet == {triCCW, triCW, line3, dupShort, quadCWdup, quadCCW}
ShapeOptions ==
    { Opt(p, s, e, c, <<>>) :
        p \in PathSet, s \in ShapeSet, e \in {<<>>, <<callerEllipsoid>>},
        c \in {<<>>, <<MITERED>>, <<BEVELED>>} }

Max(S) == CHOOSE m \in S : \A x \in S : x <= m
MaxPathLength == Max({Len(o.polylinePositions) : o \in OptionsSet})
MaxShapePoints == Max({Len(o.shapePositions) : o \in OptionsSet})
\* the packed array is large enough for every description at every offset
ArrayLen ==
    MaxOffset + 1 + MaxPathLength * Cartesian3packedLength
              + 1 + MaxShapePoints * Cartesian2packedLength
              + EllipsoidpackedLength + 2
\* what the caller's array holds before anything is packed into it: a value no
\* description contains
Filler == 0 - 7

(************************** collaborators **********************************)
\* Ellipsoid.clone(ellipsoid, result): copies the radii into result, a new object
\* when result is omitted; newId is the identity of that new object
Ellipsoidclone(heap, ellipsoid, result, newId) ==
    LET target == defaultValue(result, newId)
    IN  [heap |-> [heap EXCEPT ![target] = heap[ellipsoid]], ellipsoid |-> target]

Cartesian3pack(value, arr, startingIndex) ==
    [arr EXCEPT ![startingIndex] = value[1],
                ![startingIndex + 1] = value[2],
                ![startingIndex + 2] = value[3]]

Cartesian3unpack(arr, startingIndex) ==
    <<arr[startingIndex], arr[startingIndex + 1], arr[startingIndex + 2]>>

Cartesian2pack(value, arr, startingIndex) ==
    [arr EXCEPT ![startingIndex] = value[1], ![startingIndex + 1] = value[2]]

Cartesian2unpack(arr, startingIndex) ==
    <<arr[startingIndex], arr[startingIndex + 1]>>

\* Ellipsoid.pack writes the radii
Ellipsoidpack(heap, value, arr, startingIndex) ==
    Cartesian3pack(heap[value], arr, startingIndex)

\* Ellipsoid.unpack(array, startingIndex, result) stores the radii in result
Ellipsoidunpack(heap, arr, startingIndex, result) ==
    [heap |-> [heap EXCEPT ![result] = Cartesian3unpack(arr, startingIndex)],
     ellipsoid |-> result]

(**************************** constructor **********************************)
\* lines 151-158
numComponents(positions, shape) ==
    (1 + Len(positions) * Cartesian3packedLength)
    + (1 + Len(shape) * Cartesian2packedLength)

\* a constructor that keeps the caller's ellipsoid instead of cloning it
ConstructorNoClone(heap, options, newId) ==
    [heap |-> heap,
     geom |-> [_positions |-> options.polylinePositions,
               _shape |-> options.shapePositions,
               _ellipsoid |-> defaultValue(options.ellipsoid, WGS84),
               _cornerType |-> defaultValue(options.cornerType, ROUNDED),
               _granularity |-> defaultValue(options.granularity, RADIANS_PER_DEGREE),
               packedLength |-> numComponents(options.polylinePositions,
                                              options.shapePositions)
                                + EllipsoidpackedLength + 2]]

\* new PolylineVolumeOutlineGeometry(options); newId is the identity of the
\* Ellipsoid that line 147 allocates
PolylineVolumeOutlineGeometry(heap, options, newId) ==
    LET positions == options.polylinePositions
        shape == options.shapePositions
        cl == Ellipsoidclone(heap, defaultValue(options.ellipsoid, WGS84), <<>>, newId)
    IN  [heap |-> cl.heap,
         geom |-> [_positions |-> positions,
                   _shape |-> shape,
                   _ellipsoid |-> cl.ellipsoid,
                   _cornerType |-> defaultValue(options.cornerType, ROUNDED),
                   _granularity |-> defaultValue(options.granularity, RADIANS_PER_DEGREE),
                   packedLength |-> numComponents(positions, shape)
                                    + EllipsoidpackedLength + 2]]

(******************************* pack **************************************)
\* the loop of lines 187-189; yields the array and the advanced startingIndex
RECURSIVE packPositions(_, _, _, _)
packPositions(positions, i, arr, startingIndex) ==
    IF i < Len(positions)
    THEN packPositions(positions, i + 1,
                       Cartesian3pack(positions[i + 1], arr, startingIndex),
                       startingIndex + Cartesian3packedLength)
    ELSE [array |-> arr, startingIndex |-> startingIndex]

\* the loop of lines 195-197
RECURSIVE packShape(_, _, _, _)
packShape(shape, i, arr, startingIndex) ==
    IF i < Len(shape)
    THEN packShape(shape, i + 1,
                   Cartesian2pack(shape[i + 1], arr, startingIndex),
                   startingIndex + Cartesian2packedLength)
    ELSE [array |-> arr, startingIndex |-> startingIndex]

\* a pack that writes the shape length after the shape points
packSwapped(heap, value, arr, startingIndexArg) ==
    LET s0 == defaultValue(startingIndexArg, 0)
        a1 == [arr EXCEPT ![s0] = Len(value._positions)]
        p == packPositions(value._positions, 0, a1, s0 + 1)
        q == packShape(value._shape, 0, p.array, p.startingIndex)
        a2 == [q.array EXCEPT ![q.startingIndex] = Len(value._shape)]
        a3 == Ellipsoidpack(heap, value._ellipsoid, a2, q.startingIndex + 1)
        s3 == q.startingIndex + 1 + EllipsoidpackedLength
    IN  [a3 EXCEPT ![s3] = value._cornerType, ![s3 + 1] = value._granularity]

\* PolylineVolumeOutlineGeometry.pack(value, array, startingIndex): the array after
pack(heap, value, arr, startingIndexArg) ==
    LET s0 == defaultValue(startingIndexArg, 0)
        a1 == [arr EXCEPT ![s0] = Len(value._positions)]
        p == packPositions(value._positions, 0, a1, s0 + 1)
        a2 == [p.array EXCEPT ![p.startingIndex] = Len(value._shape)]
        q == packShape(value._shape, 0, a2, p.startingIndex + 1)
        a3 == Ellipsoidpack(heap, value._ellipsoid, q.array, q.startingIndex)
        s3 == q.startingIndex + EllipsoidpackedLength
    IN  [a3 EXCEPT ![s3] = value._cornerType, ![s3 + 1] = value._granularity]

(****************************** unpack *************************************)
\* the loop of lines 237-239: positions[i] = Cartesian3.unpack(array, startingIndex)
RECURSIVE unpackPositions(_, _, _, _, _)
unpackPositions(length, i, arr, startingIndex, positions) ==
    IF i < length
    THEN unpackPositions(length, i + 1, arr, startingIndex + Cartesian3packedLength,
                         Append(positions, Cartesian3unpack(arr, startingIndex)))
    ELSE [positions |-> positions, startingIndex |-> startingIndex]

\* the loop of lines 244-246
RECURSIVE unpackShape(_, _, _, _, _)
unpackShape(length, i, arr, startingIndex, shape) ==
    IF i < length
    THEN unpackShape(length, i + 1, arr, startingIndex + Cartesian2packedLength,
                     Append(shape, Cartesian2unpack(arr, startingIndex)))
    ELSE [shape |-> shape, startingIndex |-> startingIndex]

\* an unpack that reads the granularity before the corner type
unpackSwapped(heap, options, arr, startingIndexArg, result, newId) ==
    LET s0 == defaultValue(startingIndexArg, 0)
        p == unpackPositions(arr[s0], 0, arr, s0 + 1, <<>>)
        q == unpackShape(arr[p.startingIndex], 0, arr, p.startingIndex + 1, <<>>)
        e == Ellipsoidunpack(heap, arr, q.startingIndex, scratchEllipsoid)
        s3 == q.startingIndex + EllipsoidpackedLength
        granularity == arr[s3]
        cornerType == arr[s3 + 1]
        opts == [options EXCEPT !.polylinePositions = <<p.positions>>,
                                !.shapePositions = <<q.shape>>,
                                !.cornerType = <<cornerType>>,
                                !.granularity = <<granularity>>]
    IN  IF ~defined(result)
        THEN LET c == PolylineVolumeOutlineGeometry(e.heap,
                          Opt(p.positions, q.shape, opts.ellipsoid,
                              opts.cornerType, opts.granularity), newId)
             IN  [heap |-> c.heap, scratchOptions |-> opts, geom |-> c.geom]
        ELSE LET r == result[1]
                 cl == Ellipsoidclone(e.heap, e.ellipsoid, <<r._ellipsoid>>, newId)
             IN  [heap |-> cl.heap, scratchOptions |-> options,
                  geom |-> [r EXCEPT !._positions = p.positions,
                                     !._shape = q.shape,
                                     !._ellipsoid = cl.ellipsoid,
                                     !._cornerType = cornerType,
                                     !._granularity = granularity]]

\* PolylineVolumeOutlineGeometry.unpack(array, startingIndex, result): the Ellipsoid
\* objects and scratchOptions after the call, and the description returned.
\* result is <<>> or <<the description to overwrite>>
unpack(heap, options, arr, startingIndexArg, result, newId) ==
    LET s0 == defaultValue(startingIndexArg, 0)
        p == unpackPositions(arr[s0], 0, arr, s0 + 1, <<>>)
        q == unpackShape(arr[p.startingIndex], 0, arr, p.startingIndex + 1, <<>>)
        e == Ellipsoidunpack(heap, arr, q.startingIndex, scratchEllipsoid)
        s3 == q.startingIndex + EllipsoidpackedLength
        cornerType == arr[s3]
        granularity == arr[s3 + 1]
        opts == [options EXCEPT !.polylinePositions = <<p.positions>>,
                                !.shapePositions = <<q.shape>>,
                                !.cornerType = <<cornerType>>,
                                !.granularity = <<granularity>>]
    IN  IF ~defined(result)
        THEN LET c == PolylineVolumeOutlineGeometry(e.heap,
                          Opt(p.positions, q.shape, opts.ellipsoid,
                              opts.cornerType, opts.granularity), newId)
             IN  [heap |-> c.heap, scratchOptions |-> opts, geom |-> c.geom]
        ELSE LET r == result[1]
                 cl == Ellipsoidclone(e.heap, e.ellipsoid, <<r._ellipsoid>>, newId)
             IN  [heap |-> cl.heap, scratchOptions |-> options,
                  geom |-> [r EXCEPT !._positions = p.positions,
                                     !._shape = q.shape,
                                     !._ellipsoid = cl.ellipsoid,
                                     !._cornerType = cornerType,
                                     !._granularity = granularity]]

(************************* computeAttributes *******************************)
\* IndexDatatype.createTypedArray(numberOfVertices, length): a zero-filled Uint16Array
\* (numberOfVertices stays below 64K here); writes counts the stores to each element
createTypedArray(length) ==
    [values |-> [k \in 0 .. length - 1 |-> 0], writes |-> [k \in 0 .. length - 1 |-> 0]]

\* indices[index] = value on a typed array: a store past the end is dropped, the
\* value is taken modulo 2^16
store(indices, index, value) ==
    IF index \in DOMAIN indices.values
    THEN [values |-> [indices.values EXCEPT ![index] = value % 65536],
          writes |-> [indices.writes EXCEPT ![index] = @ + 1]]
    ELSE indices

\* TRUE; it makes TLC evaluate the array built so far at each iteration instead of
\* nesting the pending stores
evaluated(x) == x = x

\* the loops of lines 61-64 and 70-73: the ring's open part
RECURSIVE ringLoop(_, _, _, _, _)
ringLoop(indices, index, j, offset, shapeLength) ==
    IF j < shapeLength - 1 /\ evaluated(indices)
    THEN ringLoop(store(store(indices, index, j + offset), index + 1, j + offset + 1),
                  index + 2, j + 1, offset, shapeLength)
    ELSE [indices |-> indices, index |-> index]

\* a ring closed on the vertex after the cross-section's last
ringPastEnd(indices, index, offset, shapeLength) ==
    LET r == ringLoop(indices, index, 0, offset, shapeLength)
    IN  [indices |-> store(store(r.indices, r.index, shapeLength + offset),
                           r.index + 1, offset),
         index |-> r.index + 2]

\* lines 61-66 and 70-75: the ring of the cross-section at offset, closed by the
\* pair (shapeLength - 1 + offset, offset)
ring(indices, index, offset, shapeLength) ==
    LET r == ringLoop(indices, index, 0, offset, shapeLength)
    IN  [indices |-> store(store(r.indices, r.index, shapeLength - 1 + offset),
                           r.index + 1, offset),
         index |-> r.index + 2]

\* the loop of lines 80-83
RECURSIVE connectLoop(_, _, _, _, _, _)
connectLoop(indices, index, j, firstOffset, secondOffset, shapeLength) ==
    IF j < shapeLength /\ evaluated(indices)
    THEN connectLoop(store(store(indices, index, j + firstOffset),
                           index + 1, j + secondOffset),
                     index + 2, j + 1, firstOffset, secondOffset, shapeLength)
    ELSE [indices |-> indices, index |-> index]

\* the loop of lines 77-84 stopping one pair of cross-sections early
RECURSIVE connectorsShort(_, _, _, _, _)
connectorsShort(indices, index, i, shapeCount, shapeLength) ==
    IF i < shapeCount - 2
    THEN LET firstOffset == shapeLength * i
             secondOffset == firstOffset + shapeLength
             c == connectLoop(indices, index, 0, firstOffset, secondOffset, shapeLength)
         IN  connectorsShort(c.indices, c.index, i + 1, shapeCount, shapeLength)
    ELSE [indices |-> indices, index |-> index]

\* the loop of lines 77-84
RECURSIVE connectors(_, _, _, _, _)
connectors(indices, index, i, shapeCount, shapeLength) ==
    IF i < shapeCount - 1
    THEN LET firstOffset == shapeLength * i
             secondOffset == firstOffset + shapeLength
             c == connectLoop(indices, index, 0, firstOffset, secondOffset, shapeLength)
         IN  connectors(c.indices, c.index, i + 1, shapeCount, shapeLength)
    ELSE [indices |-> indices, index |-> index]

\* computeAttributes(positions, shape), positions the flat vertex buffer.  It is
\* applied only where positions.length / 3 is a multiple of shape.length >= 1, so
\* that shapeCount is the exact quotient.  The code holds no check and no throw.
computeAttributes(positions, shape) ==
    LET shapeLength == Len(shape)
        vertexCount == Len(positions) \div 3
        positionLength == Len(positions) \div 3
        shapeCount == positionLength \div shapeLength
        indices0 == createTypedArray(2 * shapeLength * (shapeCount + 1))
        first == ring(indices0, 0, 0 * shapeLength, shapeLength)
        lastRing == ring(first.indices, first.index, (shapeCount - 1) * shapeLength,
                         shapeLength)
        c == connectors(lastRing.indices, lastRing.index, 0, shapeCount, shapeLength)
    IN  [threw |-> FALSE,
         geometry |-> <<[positions |-> positions,
                         indices |-> c.indices.values,
                         writes |-> c.indices.writes,
                         primitiveType |-> "LINES"]>>]

(*************************** createGeometry ********************************)
\* PolylineVolumeGeometryLibrary.removeDuplicatesFromPositions: a new array without
\* the points that equal their predecessor
RECURSIVE removeDuplicates(_, _, _)
removeDuplicates(points, i, clean) ==
    IF i > Len(points) THEN clean
    ELSE IF i > 1 /\ points[i] = points[i - 1]
         THEN removeDuplicates(points, i + 1, clean)
         ELSE removeDuplicates(points, i + 1, Append(clean, points[i]))

removeDuplicatesFromPositions(positions, ellipsoid) == removeDuplicates(positions, 1, <<>>)

\* PolylineVolumeGeometryLibrary.removeDuplicatesFromShape; fresh says that the
\* array returned is a new one, not the array passed in
removeDuplicatesFromShape(shape) ==
    [array |-> removeDuplicates(shape, 1, <<>>), fresh |-> TRUE]

\* twice the signed area of the polygon (shoelace formula)
RECURSIVE area2(_, _)
area2(shape, i) ==
    IF i > Len(shape) THEN 0
    ELSE LET v0 == shape[IF i = 1 THEN Len(shape) ELSE i - 1]
             v1 == shape[i]
         IN  (v0[1] * v1[2] - v1[1] * v0[2]) + area2(shape, i + 1)

\* PolygonPipeline.computeWindingOrder2D: clockwise when the signed area is negative
computeWindingOrder2D(shape) ==
    IF area2(shape, 1) < 0 THEN CLOCKWISE ELSE COUNTER_CLOCKWISE

\* Array.prototype.reverse
reverse(a) == [k \in 1 .. Len(a) |-> a[Len(a) + 1 - k]]

Min(S) == CHOOSE m \in S : \A x \in S : m <= x
\* BoundingRectangle.fromPoints(positions, result): every field of result is set
fromPoints(points, result) ==
    LET xs == {points[k][1] : k \in 1 .. Len(points)}
        ys == {points[k][2] : k \in 1 .. Len(points)}
    IN  [result EXCEPT !.x = Min(xs), !.y = Min(ys),
                       !.width = Max(xs) - Min(xs), !.height = Max(ys) - Min(ys)]

\* the cross-sections the sweeper adds at an interior path point, by corner style
cornerSections(cornerType) ==
    IF cornerType = MITERED THEN 0 ELSE IF cornerType = BEVELED THEN 1 ELSE 2

\* PolylineVolumeGeometryLibrary.computePositions(positions, shape2D, boundingRectangle,
\* geometry, false): the flat vertex buffer of shapeCount copies of the shape, one
\* per sweep step, the shape taken relative to the rectangle's corner
computePositions(positions, shape2D, boundingRectangle, cornerType) ==
    LET shapeCount == Len(positions) + (Len(positions) - 2) * cornerSections(cornerType)
        L == Len(shape2D)
        coord(k) ==
            LET v == (k - 1) \div 3
                pt == shape2D[(v % L) + 1]
                c == (k - 1) % 3
            IN  IF c = 0 THEN pt[1] - boundingRectangle.x
                ELSE IF c = 1 THEN pt[2] - boundingRectangle.y
                ELSE v \div L
    IN  [k \in 1 .. 3 * L * shapeCount |-> coord(k)]

Thrown(message) ==
    [threw |-> TRUE, message |-> message, sweeper |-> FALSE, shape2D |-> <<>>,
     geometry |-> <<>>]

\* line 286 left out: shape2D stays the description's own array
cleanShapeAliased(g) == [array |-> g._shape, fresh |-> FALSE]

\* lines 285-286: shape2D, and whether it is another array than g._shape
cleanShape(g) == removeDuplicatesFromShape(g._shape)

\* the shape check of line 292 off by one
checkCountsWeak(cleanPositions, shape2D) ==
    IF Len(cleanPositions) < 2
    THEN <<"Count of unique polyline positions must be greater than 1.">>
    ELSE IF Len(shape2D) < 2
    THEN <<"Count of unique shape positions must be at least 3.">>
    ELSE <<>>

\* lines 289-294: the DeveloperError thrown, <<>> when none is
checkCounts(cleanPositions, shape2D) ==
    IF Len(cleanPositions) < 2
    THEN <<"Count of unique polyline positions must be greater than 1.">>
    ELSE IF Len(shape2D) < 3
    THEN <<"Count of unique shape positions must be at least 3.">>
    ELSE <<>>

\* lines 297-299 without the reversal
windingFixNever(shape2D) == shape2D

\* lines 297-299: shape2D after the call of reverse, if any
windingFix(shape2D) ==
    IF computeWindingOrder2D(shape2D) = CLOCKWISE THEN reverse(shape2D) ELSE shape2D

\* PolylineVolumeOutlineGeometry.createGeometry(g) with the module's brScratch: what
\* it throws or returns, whether the sweeper ran, the shape handed to it, brScratch
\* and g._shape after the call.  (The geometry's bounding sphere is left out.)
createGeometry(heap, g, br) ==
    LET positions == g._positions
        cleanPositions == removeDuplicatesFromPositions(positions, heap[g._ellipsoid])
        cleaned == cleanShape(g)
        error == checkCounts(cleanPositions, cleaned.array)
    IN  IF defined(error)
        THEN [result |-> Thrown(error[1]), brScratch |-> br, specShape |-> g._shape]
        ELSE LET shape2D == windingFix(cleaned.array)
                 boundingRectangle == fromPoints(shape2D, br)
                 computedPositions ==
                     computePositions(cleanPositions, shape2D, boundingRectangle,
                                      g._cornerType)
                 attrs == computeAttributes(computedPositions, shape2D)
             IN  [result |-> [threw |-> FALSE, message |-> "", sweeper |-> TRUE,
                              shape2D |-> shape2D, geometry |-> attrs.geometry],
                  brScratch |-> boundingRectangle,
                  \* reverse acts in place on the array shape2D refers to
                  specShape |-> IF cleaned.fresh THEN g._shape ELSE shape2D]

(************************** state and actions ******************************)
GeomVars == 1 .. MaxGeoms
\* the startingIndex arguments: omitted, or a positive index
Offsets == {<<>>} \cup {<<k>> : k \in 1 .. MaxOffset}
\* the array the caller allocates for a pack
newArray == [k \in 0 .. ArrayLen - 1 |-> Filler]

\* the fields of a description, its ellipsoid by value
SpecValue(heap, g) ==
    [path |-> g._positions, shape |-> g._shape, radii |-> heap[g._ellipsoid],
     cornerType |-> g._cornerType, granularity |-> g._granularity]

\* the number of slots pack writes for g (lines 185-203)
SlotsWritten(g) ==
    1 + Cartesian3packedLength * Len(g._positions)
      + 1 + Cartesian2packedLength * Len(g._shape) + EllipsoidpackedLength + 2

\* lines 206-214 and 271
scratchOptions0 ==
    [polylinePositions |-> <<>>, shapePositions |-> <<>>,
     ellipsoid |-> <<scratchEllipsoid>>, height |-> <<>>,
     cornerType |-> <<>>, granularity |-> <<>>]
ellipsoids0 ==
    [id \in EllipsoidIds |->
        IF id = WGS84 THEN WGS84Radii
        ELSE IF id = callerEllipsoid THEN CallerRadii
        ELSE UnitRadii]
brScratch0 == [x |-> 0, y |-> 0, width |-> 0, height |-> 0]

\* the call made last: its arguments and, for createGeometry, its outcome
NoCall == [op |-> "none", geom |-> 0, offset |-> <<>>, result |-> <<>>, out |-> <<>>]

Init ==
    /\ geoms = [i \in GeomVars |-> <<>>]
    /\ ellipsoids = ellipsoids0
    /\ array = newArray
    /\ packedAt = {}
    /\ scratchOptions = scratchOptions0
    /\ brScratch = brScratch0
    /\ last = NoCall
    /\ topoIn = <<>>
    /\ topoOut = <<>>

\* geoms[i] = new PolylineVolumeOutlineGeometry(o)
New(i, o) ==
    LET c == PolylineVolumeOutlineGeometry(ellipsoids, o, i)
    IN  /\ geoms' = [geoms EXCEPT ![i] = <<c.geom>>]
        /\ ellipsoids' = c.heap
        /\ last' = [NoCall EXCEPT !.op = "new", !.geom = i]
        /\ UNCHANGED <<array, packedAt, scratchOptions, brScratch, topoIn, topoOut>>

\* array = new Array(ArrayLen); PolylineVolumeOutlineGeometry.pack(geoms[i], array, off).
\* packedAt records where in the array a packed description lies, and its fields
Pack(i, off) ==
    /\ defined(geoms[i])
    /\ LET g == geoms[i][1]
           s0 == defaultValue(off, 0)
           n == SlotsWritten(g)
       IN  /\ array' = pack(ellipsoids, g, newArray, off)
           /\ packedAt' = {[offset |-> s0, len |-> n, value |-> SpecValue(ellipsoids, g)]}
    /\ last' = [NoCall EXCEPT !.op = "pack", !.geom = i, !.offset = off]
    /\ UNCHANGED <<geoms, ellipsoids, scratchOptions, brScratch, topoIn, topoOut>>

\* geoms[i] = PolylineVolumeOutlineGeometry.unpack(array, off, result) from an offset
\* where a packed description lies; result is <<>> or <<i>>, the variable whose
\* description is overwritten
Unpack(i, off, result) ==
    /\ \E e \in packedAt : e.offset = defaultValue(off, 0)
    /\ defined(result) => result[1] = i /\ defined(geoms[i])
    /\ LET u == unpack(ellipsoids, scratchOptions, array, off,
                       IF defined(result) THEN geoms[i] ELSE <<>>, i)
       IN  /\ geoms' = [geoms EXCEPT ![i] = <<u.geom>>]
           /\ ellipsoids' = u.heap
           /\ scratchOptions' = u.scratchOptions
    /\ last' = [NoCall EXCEPT !.op = "unpack", !.geom = i, !.offset = off,
                              !.result = result]
    /\ UNCHANGED <<array, packedAt, brScratch, topoIn, topoOut>>

\* createGeometry(geoms[i])
CreateGeometry(i) ==
    /\ defined(geoms[i])
    /\ LET r == createGeometry(ellipsoids, geoms[i][1], brScratch)
       IN  /\ geoms' = [geoms EXCEPT ![i] = <<[geoms[i][1] EXCEPT !._shape = r.specShape]>>]
           /\ brScratch' = r.brScratch
           /\ last' = [NoCall EXCEPT !.op = "createGeometry", !.geom = i,
                                     !.out = <<r.result>>]
    /\ UNCHANGED <<ellipsoids, array, packedAt, scratchOptions, topoIn, topoOut>>

Next ==
    \/ \E i \in GeomVars, o \in OptionsSet : New(i, o)
    \/ \E i \in GeomVars, off \in Offsets : Pack(i, off)
    \/ \E i \in GeomVars, off \in Offsets :
          \E result \in {<<>>, <<i>>} : Unpack(i, off, result)
    \/ \E i \in GeomVars : CreateGeometry(i)

Spec == Init /\ [][Next]_vars

(******************* createGeometry on its own: its inputs *****************)
InitShapes ==
    /\ \E o \in ShapeOptions :
          LET c == PolylineVolumeOutlineGeometry(ellipsoids0, o, 1)
          IN  /\ geoms = [i \in GeomVars |-> IF i = 1 THEN <<c.geom>> ELSE <<>>]
              /\ ellipsoids = c.heap
    /\ array = newArray
    /\ packedAt = {}
    /\ scratchOptions = scratchOptions0
    /\ brScratch = brScratch0
    /\ last = NoCall
    /\ topoIn = <<>>
    /\ topoOut = <<>>

NextShapes == CreateGeometry(1)

SpecShapes == InitShapes /\ [][NextShapes]_vars

(***************** computeAttributes on its own: its inputs ****************)
\* a flat vertex buffer of shapeCount cross-sections of shapeLength vertices
topoPositions(in) == [k \in 1 .. 3 * in.shapeLength * in.shapeCount |-> 0]
topoShape(in) == [j \in 1 .. in.shapeLength |-> <<0, 0>>]

InitTopo ==
    /\ geoms = [i \in GeomVars |-> <<>>]
    /\ ellipsoids = ellipsoids0
    /\ array = newArray
    /\ packedAt = {}
    /\ scratchOptions = scratchOptions0
    /\ brScratch = brScratch0
    /\ last = NoCall
    /\ topoIn \in {<<[shapeLength |-> L, shapeCount |-> C]>> :
                       L \in 1 .. MaxShapeLength, C \in 0 .. MaxShapeCount}
    /\ topoOut = <<>>

ComputeAttributesCall ==
    /\ topoOut = <<>>
    /\ topoOut' = <<computeAttributes(topoPositions(topoIn[1]), topoShape(topoIn[1]))>>
    /\ UNCHANGED <<geoms, ellipsoids, array, packedAt, scratchOptions, brScratch,
                   last, topoIn>>

NextTopo == ComputeAttributesCall

SpecTopo == InitTopo /\ [][NextTopo]_vars

(******************************* claims ************************************)
Live == {i \in GeomVars : defined(geoms[i])}
Geom(i) == geoms[i][1]
Out == last.out[1]

\* the wire layout of section 6: N, the path points, M, the shape points, the
\* reference-surface encoding, the corner style, the granularity
RECURSIVE Flatten(_)
Flatten(points) == IF points = <<>> THEN <<>> ELSE Head(points) \o Flatten(Tail(points))
Layout(heap, g) ==
    <<Len(g._positions)>> \o Flatten(g._positions) \o <<Len(g._shape)>>
    \o Flatten(g._shape) \o heap[g._ellipsoid] \o <<g._cornerType, g._granularity>>

\* C1: round trip.  After unpack(array, offset, result?) of a packed description the
\* description returned equals the packed one field by field (path, shape, radii,
\* corner style, granularity), and packing it at the same offset reproduces the
\* array's contents.
C1_RoundTrip ==
    last.op = "unpack" =>
        \E e \in packedAt :
            /\ e.offset = defaultValue(last.offset, 0)
            /\ SpecValue(ellipsoids, Geom(last.geom)) = e.value
            /\ pack(ellipsoids, Geom(last.geom), newArray, last.offset) = array
            /\ pack(ellipsoids, Geom(last.geom), array, last.offset) = array

\* an unpack at a positive offset into an existing description whose path and shape
\* had other lengths
C1_Witness ==
    /\ last.op = "unpack"
    /\ defined(last.result)
    /\ last.offset = <<1>>
    /\ Geom(last.geom).packedLength # SlotsWritten(Geom(last.geom))

\* C2 as claimed: after pack(g, array, offset) exactly the 2 + 3N + 2M + K slots
\* from offset (0 when omitted) are written, in the order of the layout, and every
\* other slot of the array holds what it held before the call.
C2_WireLayoutAsClaimed ==
    last.op = "pack" =>
        LET g == Geom(last.geom)
            s0 == defaultValue(last.offset, 0)
            lay == Layout(ellipsoids, g)
            n == 2 + 3 * Len(g._positions) + 2 * Len(g._shape) + EllipsoidpackedLength
        IN  \A k \in 0 .. ArrayLen - 1 :
                array[k] = IF s0 <= k /\ k < s0 + n THEN lay[k - s0 + 1]
                           ELSE newArray[k]

\* C2 amended: after pack(g, array, offset) exactly the 4 + 3N + 2M + K slots from
\* offset (0 when omitted) hold N, the path points, M, the shape points, the
\* reference-surface encoding, the corner style and the granularity in this order,
\* and every other slot of the array holds what it held before the call.
C2_WireLayout ==
    last.op = "pack" =>
        LET g == Geom(last.geom)
            s0 == defaultValue(last.offset, 0)
            lay == Layout(ellipsoids, g)
            n == 4 + 3 * Len(g._positions) + 2 * Len(g._shape) + EllipsoidpackedLength
        IN  /\ Len(lay) = n
            /\ \A k \in 0 .. ArrayLen - 1 :
                  array[k] = IF s0 <= k /\ k < s0 + n THEN lay[k - s0 + 1]
                             ELSE newArray[k]

\* a pack with the offset omitted that leaves slots after the range untouched
C2_Witness ==
    /\ last.op = "pack"
    /\ last.offset = <<>>
    /\ array[0] = Len(Geom(last.geom)._positions)
    /\ array[ArrayLen - 1] = Filler

\* C9 as claimed: every description's packedLength is the number of slots pack
\* writes for its current path and shape.
C9_PackedLength ==
    \A i \in Live : Geom(i).packedLength = SlotsWritten(Geom(i))

\* C7: sequential scratch safety.  A call of unpack or createGeometry returns what
\* it returns with freshly allocated scratch objects, leaves the fields of every
\* other description as they were, and no description holds the scratch ellipsoid
\* or shares its ellipsoid with another.
FreshHeap(heap) == [heap EXCEPT ![scratchEllipsoid] = UnitRadii]
OthersKept(i) ==
    \A j \in Live \ {i} :
        /\ defined(geoms'[j])
        /\ SpecValue(ellipsoids', geoms'[j][1]) = SpecValue(ellipsoids, Geom(j))
NoSharedEllipsoid ==
    \A i \in GeomVars : defined(geoms'[i]) =>
        /\ geoms'[i][1]._ellipsoid = i
        /\ \A j \in GeomVars \ {i} :
              defined(geoms'[j]) => geoms'[j][1]._ellipsoid # geoms'[i][1]._ellipsoid
C7_ScratchSafety ==
    [][/\ last'.op = "unpack" =>
            LET i == last'.geom
                f == unpack(FreshHeap(ellipsoids), scratchOptions0, array, last'.offset,
                            IF defined(last'.result) THEN geoms[i] ELSE <<>>, i)
            IN  /\ SpecValue(ellipsoids', geoms'[i][1]) = SpecValue(f.heap, f.geom)
                /\ geoms'[i][1].packedLength = f.geom.packedLength
                /\ OthersKept(i)
       /\ last'.op = "createGeometry" =>
            /\ last'.out =
                  <<createGeometry(FreshHeap(ellipsoids), Geom(last'.geom), brScratch0).result>>
            /\ OthersKept(last'.geom)
       /\ NoSharedEllipsoid]_vars

\* a description overwritten by an earlier unpack keeps radii other than those the
\* latest unpack left in the scratch ellipsoid
C7_Witness ==
    /\ last.op = "unpack"
    /\ \E j \in Live \ {last.geom} :
          /\ Geom(j).packedLength # SlotsWritten(Geom(j))
          /\ ellipsoids[Geom(j)._ellipsoid] # ellipsoids[scratchEllipsoid]

C6_Preconditions ==
    last.op = "createGeometry" =>
        LET g == Geom(last.geom)
            cleanPath == removeDuplicatesFromPositions(g._positions,
                                                       ellipsoids[g._ellipsoid])
            cleanedShape == removeDuplicatesFromShape(g._shape).array
        IN  /\ Out.threw <=> (Len(cleanPath) < 2 \/ Len(cleanedShape) < 3)
            /\ Out.threw => ~Out.sweeper /\ Out.geometry = <<>>
            /\ ~Out.threw => Out.sweeper /\ defined(Out.geometry)

\* a throw for a shape that deduplicates to 2 points on a path of 2 or more
C6_Witness ==
    /\ last.op = "createGeometry"
    /\ Out.threw
    /\ Out.message = "Count of unique shape positions must be at least 3."
    /\ Len(removeDuplicatesFromShape(Geom(last.geom)._shape).array) = 2

\* C5 as claimed: the shape handed to the sweeper and the topology builder is always
\* counter-clockwise, reversed when the deduplicated shape is clockwise, unchanged
\* when it is counter-clockwise.
C5_AlwaysCounterClockwise ==
    (last.op = "createGeometry" /\ ~Out.threw) =>
        LET cleanedShape == removeDuplicatesFromShape(Geom(last.geom)._shape).array
        IN  /\ area2(Out.shape2D, 1) > 0
            /\ area2(cleanedShape, 1) < 0 => Out.shape2D = reverse(cleanedShape)
            /\ area2(cleanedShape, 1) > 0 => Out.shape2D = cleanedShape

\* C5 amended: the shape handed on never has negative signed area and is
\* counter-clockwise whenever the deduplicated shape's signed area is not zero; it
\* is the exact reverse of a clockwise shape and a counter-clockwise shape unchanged.
C5_NeverClockwise ==
    (last.op = "createGeometry" /\ ~Out.threw) =>
        LET cleanedShape == removeDuplicatesFromShape(Geom(last.geom)._shape).array
        IN  /\ area2(Out.shape2D, 1) >= 0
            /\ area2(cleanedShape, 1) # 0 => area2(Out.shape2D, 1) > 0
            /\ area2(cleanedShape, 1) < 0 => Out.shape2D = reverse(cleanedShape)
            /\ area2(cleanedShape, 1) > 0 => Out.shape2D = cleanedShape

\* a clockwise shape with a duplicate point, handed on reversed
C5_Witness ==
    /\ last.op = "createGeometry"
    /\ ~Out.threw
    /\ LET cleanedShape == removeDuplicatesFromShape(Geom(last.geom)._shape).array
       IN  /\ area2(cleanedShape, 1) < 0
           /\ Len(cleanedShape) < Len(Geom(last.geom)._shape)
           /\ Out.shape2D = reverse(cleanedShape)

\* C4: every index of a geometry returned by createGeometry is at least 0 and less
\* than vertexCount = positions.length / 3.
C4_IndexRange ==
    (last.op = "createGeometry" /\ ~Out.threw) =>
        LET geometry == Out.geometry[1]
        IN  \A k \in DOMAIN geometry.indices :
                /\ 0 <= geometry.indices[k]
                /\ 3 * geometry.indices[k] < Len(geometry.positions)

\* a geometry of more cross-sections than path points whose last vertex is indexed
C4_Witness ==
    /\ last.op = "createGeometry"
    /\ ~Out.threw
    /\ LET geometry == Out.geometry[1]
       IN  /\ Len(geometry.positions)
                > 3 * Len(Out.shape2D) * Len(Geom(last.geom)._positions)
           /\ \E k \in DOMAIN geometry.indices :
                 3 * (geometry.indices[k] + 1) = Len(geometry.positions)

\* the index buffer of section 4.3 for C cross-sections of L vertices
StartRing(L, offset) ==
    [k \in 1 .. 2 * L |->
        LET j == (k - 1) \div 2
        IN  IF k % 2 = 1 THEN j + offset
            ELSE IF j = L - 1 THEN offset ELSE j + 1 + offset]
Connectors(L, C) ==
    [k \in 1 .. 2 * L * (C - 1) |->
        LET pair == (k - 1) \div 2
            i == pair \div L
            j == pair % L
        IN  IF k % 2 = 1 THEN j + i * L ELSE j + (i + 1) * L]
ExpectedIndices(L, C) == StartRing(L, 0) \o StartRing(L, (C - 1) * L) \o Connectors(L, C)

\* C3: for C >= 1 cross-sections of L >= 3 vertices the index buffer has 2*L*(C+1)
\* entries, each written exactly once, and is the start ring, the end ring and the
\* longitudinal connectors in this order; L = 3, C = 2 gives 18 indices over 6
\* vertices.
C3_Topology ==
    (defined(topoOut) /\ topoIn[1].shapeLength >= 3 /\ topoIn[1].shapeCount >= 1) =>
        LET L == topoIn[1].shapeLength
            C == topoIn[1].shapeCount
            geometry == topoOut[1].geometry[1]
            expected == ExpectedIndices(L, C)
        IN  /\ ~topoOut[1].threw
            /\ DOMAIN geometry.indices = 0 .. 2 * L * (C + 1) - 1
            /\ \A k \in DOMAIN geometry.indices :
                  /\ geometry.writes[k] = 1
                  /\ geometry.indices[k] = expected[k + 1]
            /\ (L = 3 /\ C = 2) =>
                  /\ Cardinality(DOMAIN geometry.indices) = 18
                  /\ Len(geometry.positions) = 3 * 6

\* the index buffer of 3 or more cross-sections of 4 vertices
C3_Witness ==
    /\ defined(topoOut)
    /\ topoIn[1].shapeLength = 4
    /\ topoIn[1].shapeCount >= 3
    /\ defined(topoOut[1].geometry)

\* C8 as claimed: a call of computeAttributes with shapeLength < 3 or shapeCount < 1
\* fails with an error and returns no geometry.
C8_FailFast ==
    (defined(topoOut) /\ (topoIn[1].shapeLength < 3 \/ topoIn[1].shapeCount < 1)) =>
        topoOut[1].threw /\ topoOut[1].geometry = <<>>

====
